---- MODULE Spec2Model ----
(***************************************************************************)
(* Model of pygmtsar's PRM.robust_trend2d and PRM.fitoffset                *)
(* (src/pygmtsar/pygmtsar/PRM.py).                                         *)
(*                                                                         *)
(* Numbers.  The code computes in float64.  The model computes in decimal  *)
(* fixed point: a real value v is held as the integer v * Scale, and each  *)
(* source expression is evaluated exactly and rounded once to that grid.   *)
(* Pixel coordinates are whole numbers and are held unscaled.  chisq is    *)
(* held at the finer resolution 1 / Scale^3 so that it is 0 only when the  *)
(* weighted residuals vanish at the model's resolution.                    *)
(***************************************************************************)
EXTENDS Integers, Sequences, FiniteSets, TLC

\* resolution of the fixed-point grid (1 / Scale)
Scale == 100

\* ------------------------------------------------------------------------
\* Arithmetic helpers
\* ------------------------------------------------------------------------

Abs(a) == IF a < 0 THEN -a ELSE a

Sign(a) == IF a < 0 THEN -1 ELSE 1

\* a / b rounded to the nearest integer (halves away from zero), b > 0
RoundDiv(a, b) == Sign(a) * ((Abs(a) + b \div 2) \div b)

\* sum of f[i] over i in 1..Len(f)
RECURSIVE SumTo(_, _)
SumTo(f, n) == IF n = 0 THEN 0 ELSE f[n] + SumTo(f, n - 1)

Sum(f) == SumTo(f, Len(f))

\* numpy: x.min(), x.max()
Min(f) == CHOOSE v \in {f[i] : i \in 1..Len(f)} : \A j \in 1..Len(f) : v <= f[j]

Max(f) == CHOOSE v \in {f[i] : i \in 1..Len(f)} : \A j \in 1..Len(f) : v >= f[j]

\* the k-th smallest entry of f (k in 1..Len(f))
Kth(f, k) ==
    CHOOSE v \in {f[i] : i \in 1..Len(f)} :
        /\ Cardinality({i \in 1..Len(f) : f[i] < v}) < k
        /\ Cardinality({i \in 1..Len(f) : f[i] <= v}) >= k

\* np.median(r), doubled: the middle entry twice, or the sum of the two
\* middle entries (kept doubled so that no rounding happens here)
Median2(f) ==
    LET n == Len(f)
    IN  IF n % 2 = 1 THEN 2 * Kth(f, (n + 1) \div 2)
        ELSE Kth(f, n \div 2) + Kth(f, n \div 2 + 1)

\* integer square root: the largest s with s * s <= n, sought in lo..hi
RECURSIVE IsqrtIn(_, _, _)
IsqrtIn(n, lo, hi) ==
    IF lo >= hi THEN lo
    ELSE LET mid == (lo + hi + 1) \div 2
         IN  IF mid * mid <= n THEN IsqrtIn(n, mid, hi)
             ELSE IsqrtIn(n, lo, mid - 1)

Isqrt(n) == IsqrtIn(n, 0, IF n < 46340 THEN n ELSE 46340)

\* b to the power e (e >= 0), in fixed point with unit one
RECURSIVE FixPow(_, _, _)
FixPow(b, e, one) == IF e = 0 THEN one ELSE RoundDiv(b * FixPow(b, e - 1, one), one)

\* ------------------------------------------------------------------------
\* scipy.special.betainc(a, a, x) with a = nu / 2
\* ------------------------------------------------------------------------

\* number of quadrature cells on [0, 1], and grid steps of x per cell
BetaCells == 40

CellWidth == 25

\* x is held in units of 1 / XRes
XRes == BetaCells * CellWidth

\* the value of betainc is held in units of 1 / SigRes
SigRes == 1000

\* unit of the tabulated integrand
DensityOne == 1000

\* the integrand (t (1 - t))^(nu/2 - 1) at the midpoint of cell j, relative
\* to its value at t = 1/2 (for nu = 1, where it is smallest: the reciprocal)
BetaDensity(nu, j) ==
    LET m == (2 * j - 1) * (2 * BetaCells - 2 * j + 1)
        g == RoundDiv(m * DensityOne, BetaCells * BetaCells)
        h == Isqrt(g * DensityOne)
    IN  IF nu = 1 THEN RoundDiv(DensityOne * DensityOne, h)
        ELSE IF nu % 2 = 0 THEN FixPow(g, (nu - 2) \div 2, DensityOne)
        ELSE RoundDiv(h * FixPow(g, (nu - 3) \div 2, DensityOne), DensityOne)

RECURSIVE BetaCum(_, _)
BetaCum(nu, c) == IF c = 0 THEN 0 ELSE BetaDensity(nu, c) + BetaCum(nu, c - 1)

\* the regularized incomplete beta function I_x(nu/2, nu/2) by the midpoint
\* rule: the integral of the density over [0, x] divided by that over [0, 1]
betainc(nu, x) ==
    LET c    == x \div CellWidth
        rem  == x % CellWidth
        part == IF rem = 0 THEN 0 ELSE rem * BetaDensity(nu, c + 1)
    IN  RoundDiv((CellWidth * BetaCum(nu, c) + part) * SigRes,
                 CellWidth * BetaCum(nu, BetaCells))

\* ------------------------------------------------------------------------
\* PRM.robust_trend2d: the numerical steps
\* ------------------------------------------------------------------------

\* MAD_NORMALIZE = 1.4826, times 10^4
MAD_NORMALIZE == 14826

\* sig_threshold = 0.51, times 100
sig_threshold == 51

\* variant: the rank test lets 4 through
ValidRanks_Wide == {1, 2, 3, 4}

\* the ranks robust_trend2d accepts
ValidRanks == {1, 2, 3}

\* column c (1..3) of an N x 3 data array
Col(data, c) == [i \in 1..Len(data) |-> data[i][c]]

\* np.interp(v, (lo, hi), (-1, +1)) for lo <= v <= hi; with lo = hi numpy
\* returns the right-hand value +1
Interp(v, lo, hi) ==
    IF hi = lo THEN Scale ELSE RoundDiv(2 * (v - lo) * Scale, hi - lo) - Scale

\* x = np.interp(x, (x.min(), x.max()), (-1, +1))
Normalize(f) == [i \in 1..Len(f) |-> Interp(f[i], Min(f), Max(f))]

\* variant: rank 1 regresses on the x column instead of a column of zeros
Regressors_Rank1X(data, rank) ==
    IF rank = 1 THEN << Normalize(Col(data, 1)) >>
    ELSE IF rank = 2 THEN << Normalize(Col(data, 1)) >>
    ELSE << Normalize(Col(data, 1)), Normalize(Col(data, 2)) >>

\* the regressor matrix xy, as its sequence of columns
Regressors(data, rank) ==
    IF rank = 1 THEN << [i \in 1..Len(data) |-> 0] >>
    ELSE IF rank = 2 THEN << Normalize(Col(data, 1)) >>
    ELSE << Normalize(Col(data, 1)), Normalize(Col(data, 2)) >>

\* weighted mean of f
WMean(f, w) == RoundDiv(Sum([i \in 1..Len(f) |-> w[i] * f[i]]), Sum(w))

\* weighted sum of products a[i] * b[i]; the result is in units 1 / Scale^2
WDot(a, b, w) == RoundDiv(Sum([i \in 1..Len(a) |-> w[i] * a[i] * b[i]]), Scale)

Centered(f, w) == [i \in 1..Len(f) |-> f[i] - WMean(f, w)]

\* a / b in fixed point; 0 when b = 0 (lstsq gives a regressor without
\* variation the minimum-norm coefficient 0)
Quot(a, b) == IF b = 0 THEN 0 ELSE RoundDiv(a * Scale, b)

\* LinearRegression().fit(xy, z, sample_weight=w) with one regressor:
\* <<intercept_, coef_[0]>>
Fit1(u, z, w) ==
    LET uc == Centered(u, w)
        zc == Centered(z, w)
        c1 == Quot(WDot(uc, zc, w), WDot(uc, uc, w))
    IN  << WMean(z, w) - RoundDiv(c1 * WMean(u, w), Scale), c1 >>

\* ... with two regressors, by orthogonalising v against u:
\* <<intercept_, coef_[0], coef_[1]>>
Fit2(u, v, z, w) ==
    LET uc  == Centered(u, w)
        vc  == Centered(v, w)
        zc  == Centered(z, w)
        suu == WDot(uc, uc, w)
        suv == WDot(uc, vc, w)
        suz == WDot(uc, zc, w)
        b   == Quot(suv, suu)
        vo  == [i \in 1..Len(v) |-> vc[i] - RoundDiv(b * uc[i], Scale)]
        c2  == Quot(WDot(vo, zc, w), WDot(vo, vo, w))
        c1  == Quot(suz - RoundDiv(c2 * suv, Scale), suu)
    IN  << WMean(z, w) - RoundDiv(c1 * WMean(u, w) + c2 * WMean(v, w), Scale),
           c1, c2 >>

\* mlr.fit(xy, z, sample_weight=w): <<intercept_, *coef_>>
Fit(xy, z, w) ==
    IF Len(xy) = 1 THEN Fit1(xy[1], z, w) ELSE Fit2(xy[1], xy[2], z, w)

\* mlr.predict(xy)
Predict(m, xy) ==
    [i \in 1..Len(xy[1]) |->
        m[1] + RoundDiv(Sum([j \in 1..Len(xy) |-> m[j + 1] * xy[j][i]]), Scale)]

\* r = np.abs(z - mlr.predict(xy))
Residuals(m, xy, z) ==
    LET p == Predict(m, xy) IN [i \in 1..Len(z) |-> Abs(z[i] - p[i])]

\* chisq = np.sum((r**2*w))/(z.size-3), in units 1 / Scale^3
Chisq(r, w) ==
    RoundDiv(Sum([i \in 1..Len(r) |-> r[i] * r[i] * w[i]]), Len(r) - 3)

\* k = 1.5 * MAD_NORMALIZE * np.median(r)
TuningK(r) == RoundDiv(15 * MAD_NORMALIZE * Median2(r), 2 * 10 * 10000)

\* variant: the quadratic term is left out
Weight_Linear(r, k) ==
    IF r <= k THEN Scale ELSE RoundDiv(2 * k * Scale, r)

\* variant: the two terms are subtracted the other way round
Weight_Swapped(r, k) ==
    IF r <= k THEN Scale ELSE RoundDiv((k * k - 2 * k * r) * Scale, r * r)

\* one entry of np.where(r <= k, 1, (2*k/r) - (k * k/(r**2)))
Weight(r, k) ==
    IF r <= k THEN Scale ELSE RoundDiv((2 * k * r - k * k) * Scale, r * r)

Reweight(r) == [i \in 1..Len(r) |-> Weight(r[i], TuningK(r))]

\* chisq2/(chisq2+chisq1) in units 1 / XRes; large operands are first
\* brought into the range where the product does not overflow
BetaArg(chisq1, chisq2) ==
    LET s == (chisq1 + chisq2) \div 1000000 + 1
    IN  RoundDiv((chisq2 \div s) * XRes, (chisq1 + chisq2) \div s)

\* gmtstat_f_q(chisq1, nu1, chisq2, nu2) as robust_trend2d calls it, with
\* nu1 = nu2 = nu; the result is in units 1 / SigRes
gmtstat_f_q(chisq1, chisq2, nu) ==
    IF chisq1 = 0 THEN SigRes
    ELSE IF chisq2 = 0 THEN 0
    ELSE betainc(nu, BetaArg(chisq1, chisq2))

\* variant: the list is returned without the slice
Take_All(f, n) == f

\* coeffs[:rank]
Take(f, n) == IF Len(f) <= n THEN f ELSE SubSeq(f, 1, n)

\* ------------------------------------------------------------------------
\* PRM.fitoffset: the numerical steps
\* ------------------------------------------------------------------------

\* rng.shape[0] < 8
MinPoints == 8

\* variant: rows at the threshold are kept
RECURSIVE FilterSNR_Ge(_, _)
FilterSNR_Ge(m, snr) ==
    IF m = << >> THEN << >>
    ELSE IF Head(m)[5] >= snr THEN << Head(m) >> \o FilterSNR_Ge(Tail(m), snr)
    ELSE FilterSNR_Ge(Tail(m), snr)

\* matrix[np.where(matrix[:,4]>SNR)]: the rows whose fifth column exceeds SNR
RECURSIVE FilterSNR(_, _)
FilterSNR(m, snr) ==
    IF m = << >> THEN << >>
    ELSE IF Head(m)[5] > snr THEN << Head(m) >> \o FilterSNR(Tail(m), snr)
    ELSE FilterSNR(Tail(m), snr)

\* variant: the second and third selected columns change places
Columns_Swapped(m, a, b, c) == [i \in 1..Len(m) |-> << m[i][a], m[i][c], m[i][b] >>]

\* m[:, [a, b, c]] (columns counted from 1)
Columns(m, a, b, c) == [i \in 1..Len(m) |-> << m[i][a], m[i][b], m[i][c] >>]

\* variant: the y bounds are taken from the third column
ScaleCoef_FromZ(rng) ==
    << Min(Col(rng, 1)), Max(Col(rng, 1)), Min(Col(rng, 3)), Max(Col(rng, 3)) >>

\* scale_coef = [min, max of rng[:,0], min, max of rng[:,1]]
ScaleCoef(rng) ==
    << Min(Col(rng, 1)), Max(Col(rng, 1)), Min(Col(rng, 2)), Max(Col(rng, 2)) >>

\* coef[0] - coef[1]*(sc[1]+sc[0])/(sc[1]-sc[0]) - coef[2]*(sc[3]+sc[2])/(sc[3]-sc[2])
Shift(coef, sc) ==
    coef[1] - RoundDiv(coef[2] * (sc[2] + sc[1]), sc[2] - sc[1])
            - RoundDiv(coef[3] * (sc[4] + sc[3]), sc[4] - sc[3])

\* int(v): truncation towards zero, as a whole number
PyInt(v) == Sign(v) * (Abs(v) \div Scale)

\* math.fmod(v, 1): the remainder with the sign of v
Fmod1(v) == Sign(v) * (Abs(v) % Scale)

\* int(shift) if shift>=0 else int(shift)-1
IntPart(shift) == IF shift >= 0 THEN PyInt(shift) ELSE PyInt(shift) - 1

\* variant: the remainder of a negative shift is not moved up by 1
FracPart_NoWrap(shift) == Fmod1(shift)

\* math.fmod(shift, 1) if shift>=0 else math.fmod(shift, 1) + 1
FracPart(shift) == IF shift >= 0 THEN Fmod1(shift) ELSE Fmod1(shift) + Scale

\* variant: the factor 2 of the interval [-1, +1] is left out
Stretch_Half(c, lo, hi) == RoundDiv(c * Scale * Scale, hi - lo)

\* stretches are per-pixel quantities and are held in units 1 / Scale^3
\* coef*2/(hi-lo)
Stretch(c, lo, hi) == RoundDiv(c * 2 * Scale * Scale, hi - lo)

\* float(format(value, 'g')): six significant decimal digits
RECURSIVE GRound(_, _)
GRound(v, p) ==
    IF Abs(v) < 1000000 * p THEN p * RoundDiv(v, p) ELSE GRound(v, 10 * p)

gformat(v) == GRound(v, 1)

\* the record PRM().set(gformat=True, ...) stores; rshift and ashift are
\* Python ints and are stored as they are
OffsetParameters(rng_c, azi_c, sc) ==
    [ rshift      |-> IntPart(Shift(rng_c, sc)),
      sub_int_r   |-> gformat(FracPart(Shift(rng_c, sc))),
      stretch_r   |-> gformat(Stretch(rng_c[2], sc[1], sc[2])),
      a_stretch_r |-> gformat(Stretch(rng_c[3], sc[3], sc[4])),
      ashift      |-> IntPart(Shift(azi_c, sc)),
      sub_int_a   |-> gformat(FracPart(Shift(azi_c, sc))),
      stretch_a   |-> gformat(Stretch(azi_c[2], sc[1], sc[2])),
      a_stretch_a |-> gformat(Stretch(azi_c[3], sc[3], sc[4])) ]

\* ------------------------------------------------------------------------
\* Inputs
\* ------------------------------------------------------------------------

\* largest number of rows of a measurement matrix
MaxRows == 9

\* smallest and largest number of points of a direct robust_trend2d call
MinPts == 4

MaxPts == 5

\* largest amplitude of the measurement noise, in grid steps
MaxNoise == 2

\* ranks offered to both functions (0 and 4 are the invalid ones)
MaxRank == 4

\* length of the chi-squared history the model keeps (the code reads only
\* its last two entries and whether it has exactly one)
MaxHist == 4

\* pixel position of measurement i: a 3 x 3 grid, 100 by 50 pixels apart
PixelX(i) == 100 * ((i - 1) % 3)

PixelY(i) == 50 * (((i - 1) \div 3) % 3)

\* v hundredths, on the grid
Hundredths(v) == (v * Scale) \div 100

\* deviations that sum to zero over the 3 x 3 grid and are uncorrelated with
\* both pixel coordinates: (1, -2, 1) across times (1, -2, 1) down, quarters
GridWave(c) == IF c = 1 THEN -2 ELSE 1

Balanced(i) == Hundredths(25) * GridWave((i - 1) % 3) * GridWave(((i - 1) \div 3) % 3)

\* the offsets of measurement i: a trend (1: constant, 2: linear in one
\* pixel coordinate, 3: planar; the range offset at pixel (0, 0) is 0.00,
\* 2.00 or 4.00, the azimuth offset -1.00), noise of amplitude n, with
\* o = 1 one gross outlier at measurement 5, with o = 2 the balanced
\* deviations
RangeOffset(i, kind, n, o) ==
    Hundredths(200 * (kind - 1))
    + (IF kind >= 2 THEN Hundredths(PixelX(i)) ELSE 0)
    - (IF kind = 3 THEN Hundredths(2 * PixelY(i)) ELSE 0)
    + n * (((3 * i) % 7) - 3)
    + (IF o = 1 /\ i = 5 THEN Hundredths(300) ELSE 0)
    + (IF o = 2 THEN Balanced(i) ELSE 0)

AzimuthOffset(i, kind, n, o) ==
    Hundredths(-100)
    + (IF kind >= 2 THEN Hundredths(2 * PixelY(i)) ELSE 0)
    + (IF kind = 3 THEN Hundredths(PixelX(i)) ELSE 0)
    - n * (((5 * i) % 7) - 3)
    - (IF o = 1 /\ i = 5 THEN Hundredths(250) ELSE 0)
    + (IF o = 2 THEN Balanced(i) ELSE 0)

\* signal-to-noise ratio of measurement i under pattern s: 0: all 30;
\* 1: measurement 2 has 20; 2: measurements 2 and 6 have 20 and 10
SnrOf(i, s) ==
    IF s >= 1 /\ i = 2 THEN 20
    ELSE IF s >= 2 /\ i = 6 THEN 10
    ELSE 30

\* a row of the matrix, in the column order fitoffset reads:
\* columns 0 and 2 are the pixel coordinates, 1 and 3 the offsets, 4 the SNR
MatrixRow(i, kind, n, o, s) ==
    << PixelX(i), RangeOffset(i, kind, n, o), PixelY(i),
       AzimuthOffset(i, kind, n, o), SnrOf(i, s) >>

Matrices ==
    { [i \in 1..MaxRows |-> MatrixRow(i, kind, n, o, s)] :
        kind \in 1..3, n \in 0..MaxNoise, o \in 0..2, s \in 0..2 }

\* N x 3 point sets (x, y, z) for a direct call of robust_trend2d
PointSets ==
    { [i \in 1..np |-> << PixelX(i), PixelY(i), RangeOffset(i, kind, n, o) >>] :
        np \in MinPts..MaxPts, kind \in 1..3, n \in 0..MaxNoise, o \in 0..2 }

Ranks == 0..MaxRank

\* ------------------------------------------------------------------------
\* State
\* ------------------------------------------------------------------------

VARIABLES
    entry,            \* the function called: "fitoffset" or "robust_trend2d"
    pc,               \* position in the code
    error,            \* the exception raised ("" while none)
    rank_rng, rank_azi, SNR,    \* fitoffset's arguments
    matrix,           \* argument matrix: {} for None, else {the array}
    matrix_fromfile,  \* argument matrix_fromfile: {} for None, else {the file's array}
    given,            \* the arguments the caller supplied, among "matrix" and "file"
    file_read,        \* whether np.genfromtxt has been called
    rng, azi,         \* fitoffset's point sets
    rng_coef, azi_coef,         \* results of the two fits
    prm,              \* fitoffset's return value: {} until returned
    caller,           \* who called robust_trend2d: "rng", "azi" or "direct"
    data, rank,       \* robust_trend2d's arguments
    xy, z, w,         \* regressor columns, z values, weights
    mlr,              \* <<intercept_, *coef_>> of the last fit
    r,                \* absolute residuals of the last fit
    chisqs,           \* chi-squared history (its last MaxHist entries)
    coeffs,           \* retained coefficients
    sig,              \* significance of the last iteration
    result            \* return value of a direct call: {} until returned

fitvars == << rank_rng, rank_azi, SNR, matrix, matrix_fromfile, given, file_read,
              rng, azi, rng_coef, azi_coef, prm >>

trendvars == << data, rank, xy, z, w, mlr, r, chisqs, coeffs, sig >>

\* SBAS_intf.intf_parallel
VARIABLES
    pairs,            \* argument pairs, as the 2D array of (ref, rep) date strings
    subswaths,        \* self.get_subswaths()
    n_jobs,           \* argument n_jobs, then the number of workers
    subpairs,         \* list of [subswath, date1, date2], all items strings
    chunks,           \* np.array_split(subpairs, n_chunks)
    chunk,            \* number of the chunk the loop is at (0 before the loop)
    pbar,             \* tqdm's counter
    dispatched,       \* the calls self.intf(subswath, [date1, date2]) submitted
    running,          \* jobs of the current chunk a worker is executing
    finished          \* jobs that have returned

intfvars == << pairs, subswaths, n_jobs, subpairs, chunks, chunk, pbar,
               dispatched, running, finished >>

\* PRM.update
VARIABLES
    filename,         \* self.filename: {} for None, else {the path}
    df,               \* self.df: the values of input_file, SLC_file, led_file
    name, safe, debug,          \* update's arguments (name: {} for None)
    dirname0,         \* update's local: the directory of the files
    files,            \* the files on disk
    ops,              \* the file operations performed, in order
    stdout,           \* the lines printed
    before            \* the object and the disk when update was called

updvars == << filename, df, name, safe, debug, dirname0, files, ops, stdout,
             before >>

vars == << entry, pc, error, caller, result, fitvars, trendvars, intfvars,
           updvars >>

\* robust_trend2d's locals before the call
NoTrend ==
    /\ data = << >> /\ rank = 0 /\ xy = << >> /\ z = << >> /\ w = << >>
    /\ mlr = << >> /\ r = << >> /\ chisqs = << >> /\ coeffs = << >>
    /\ sig = 0

NoFitoffset ==
    /\ rank_rng = 0 /\ rank_azi = 0 /\ SNR = 0
    /\ matrix = {} /\ matrix_fromfile = {} /\ given = {} /\ file_read = FALSE
    /\ rng = << >> /\ azi = << >> /\ rng_coef = << >> /\ azi_coef = << >>
    /\ prm = {}

\* intf_parallel is not running
NoIntf ==
    /\ pairs = << >> /\ subswaths = << >> /\ n_jobs = 0
    /\ subpairs = << >> /\ chunks = << >> /\ chunk = 0 /\ pbar = 0
    /\ dispatched = << >> /\ running = {} /\ finished = {}

\* no PRM object is being updated
NoUpdate ==
    /\ filename = {} /\ df = << >> /\ name = {} /\ safe = FALSE
    /\ debug = FALSE /\ dirname0 = "" /\ files = {} /\ ops = << >>
    /\ stdout = << >> /\ before = << >>

\* a call fitoffset(rank_rng, rank_azi, matrix, matrix_fromfile, SNR)
InitFitoffset ==
    /\ entry = "fitoffset" /\ pc = "fitoffset" /\ caller = "rng"
    /\ rank_rng \in Ranks /\ rank_azi \in Ranks
    /\ SNR \in {20, 30}
    /\ given \in SUBSET {"matrix", "file"}
    /\ \E m \in Matrices :
          /\ matrix = IF "matrix" \in given THEN {m} ELSE {}
          /\ matrix_fromfile = IF "file" \in given THEN {m} ELSE {}
    /\ file_read = FALSE
    /\ rng = << >> /\ azi = << >> /\ rng_coef = << >> /\ azi_coef = << >>
    /\ prm = {}
    /\ NoTrend

\* a call robust_trend2d(data, rank)
InitTrend ==
    /\ entry = "robust_trend2d" /\ pc = "trend" /\ caller = "direct"
    /\ NoFitoffset
    /\ data \in PointSets /\ rank \in Ranks
    /\ xy = << >> /\ z = << >> /\ w = << >>
    /\ mlr = << >> /\ r = << >> /\ chisqs = << >> /\ coeffs = << >>
    /\ sig = 0

Init ==
    /\ error = "" /\ result = {}
    /\ (InitFitoffset \/ InitTrend)
    /\ NoIntf /\ NoUpdate

\* ------------------------------------------------------------------------
\* Actions
\* ------------------------------------------------------------------------

\* raise Exception(...): the call ends with no return value
Raise(e) == error' = e /\ pc' = "raised"

\* variant: the chi-squared history and the retained coefficients outlive
\* the call
Call_KeepsHistory(c, d, rk) ==
    /\ caller' = c /\ data' = d /\ rank' = rk /\ pc' = "trend"
    /\ xy' = << >> /\ z' = << >> /\ w' = << >> /\ mlr' = << >> /\ r' = << >>
    /\ chisqs' = chisqs /\ coeffs' = coeffs /\ sig' = sig

\* robust_trend2d(d, rk) is entered by caller c with fresh locals
Call(c, d, rk) ==
    /\ caller' = c /\ data' = d /\ rank' = rk /\ pc' = "trend"
    /\ xy' = << >> /\ z' = << >> /\ w' = << >> /\ mlr' = << >> /\ r' = << >>
    /\ chisqs' = << >> /\ coeffs' = << >> /\ sig' = 0

\* variant: only the absence of both arguments is tested
BadSource_Neither(m, f) == m = {} /\ f = {}

\* (matrix is None and matrix_fromfile is None) or
\* (matrix is not None and matrix_fromfile is not None)
BadSource(m, f) == (m = {} /\ f = {}) \/ (m # {} /\ f # {})

\* variant: the rank of the range fit is tested before the rows are counted
FitoffsetBegin_RankFirst ==
    /\ pc = "fitoffset"
    /\ UNCHANGED << entry, result, rank_rng, rank_azi, SNR, matrix_fromfile, given,
                    rng_coef, azi_coef, prm >>
    /\ IF BadSource(matrix, matrix_fromfile)
       THEN /\ Raise("OneAndOnlyOne")
            /\ UNCHANGED << matrix, file_read, rng, azi, caller, trendvars >>
       ELSE LET m  == IF matrix_fromfile # {} THEN matrix_fromfile ELSE matrix
                mm == CHOOSE a \in m : TRUE
                rg == Columns(FilterSNR(mm, SNR), 1, 3, 2)
                az == Columns(FilterSNR(mm, SNR), 1, 3, 4)
            IN  /\ matrix' = m
                /\ file_read' = (matrix_fromfile # {})
                /\ rng' = rg
                /\ azi' = az
                /\ IF rank_rng \notin ValidRanks
                   THEN Raise("BadRank") /\ UNCHANGED << caller, trendvars >>
                   ELSE IF Len(rg) < MinPoints
                   THEN Raise("NotEnoughPoints") /\ UNCHANGED << caller, trendvars >>
                   ELSE Call("rng", rg, rank_rng) /\ UNCHANGED error

\* fitoffset up to its first call of robust_trend2d
FitoffsetBegin ==
    /\ pc = "fitoffset"
    /\ UNCHANGED << entry, result, rank_rng, rank_azi, SNR, matrix_fromfile, given,
                    rng_coef, azi_coef, prm >>
    /\ IF BadSource(matrix, matrix_fromfile)
       THEN /\ Raise("OneAndOnlyOne")
            /\ UNCHANGED << matrix, file_read, rng, azi, caller, trendvars >>
       ELSE LET m  == IF matrix_fromfile # {} THEN matrix_fromfile ELSE matrix
                mm == CHOOSE a \in m : TRUE
                rg == Columns(FilterSNR(mm, SNR), 1, 3, 2)
                az == Columns(FilterSNR(mm, SNR), 1, 3, 4)
            IN  /\ matrix' = m
                /\ file_read' = (matrix_fromfile # {})
                /\ rng' = rg
                /\ azi' = az
                /\ IF Len(rg) < MinPoints
                   THEN Raise("NotEnoughPoints") /\ UNCHANGED << caller, trendvars >>
                   ELSE Call("rng", rg, rank_rng) /\ UNCHANGED error

\* robust_trend2d from its entry to the head of the loop
TrendBegin ==
    /\ pc = "trend"
    /\ UNCHANGED << entry, result, caller, fitvars, data, rank, mlr, r, chisqs, coeffs, sig >>
    /\ IF rank \notin ValidRanks
       THEN Raise("BadRank") /\ UNCHANGED << xy, z, w >>
       ELSE /\ xy' = Regressors(data, rank)
            /\ z' = Col(data, 3)
            /\ w' = [i \in 1..Len(data) |-> Scale]
            /\ pc' = "fit"
            /\ UNCHANGED error

\* chisqs.append(chisq), keeping the last MaxHist entries
Record(h, c) ==
    IF Len(h) < MaxHist THEN Append(h, c) ELSE Append(Tail(h), c)

\* first half of an iteration: the weighted fit, its residuals and chi-squared
TrendFit ==
    /\ pc = "fit"
    /\ mlr' = Fit(xy, z, w)
    /\ r' = Residuals(mlr', xy, z)
    /\ chisqs' = Record(chisqs, Chisq(r', w))
    /\ pc' = "reweight"
    /\ UNCHANGED << entry, error, result, caller, fitvars, data, rank, xy, z, w, coeffs, sig >>

\* variant: the previous chi-squared is passed first
Significance_Swapped(h, n) ==
    IF Len(h) = 1 THEN SigRes
    ELSE gmtstat_f_q(h[Len(h) - 1], h[Len(h)], n - 3)

\* variant: the first iteration is not forced to continue
Significance_NoFirst(h, n) ==
    IF Len(h) = 1 THEN 0
    ELSE gmtstat_f_q(h[Len(h)], h[Len(h) - 1], n - 3)

\* sig = 1 if len(chisqs)==1 else gmtstat_f_q(chisqs[-1], z.size-3, chisqs[-2], z.size-3)
Significance(h, n) ==
    IF Len(h) = 1 THEN SigRes
    ELSE gmtstat_f_q(h[Len(h)], h[Len(h) - 1], n - 3)

\* variant: the current fit is always retained
Improved_Always(h) == TRUE

\* len(chisqs)==1 or chisqs[-2] > chisqs[-1]
Improved(h) == Len(h) = 1 \/ h[Len(h) - 1] > h[Len(h)]

\* sig < sig_threshold
Converged(s) == s * 100 < sig_threshold * SigRes

\* second half of an iteration: new weights, significance, retained
\* coefficients and the exit test
TrendReweight ==
    /\ pc = "reweight"
    /\ w' = Reweight(r)
    /\ sig' = Significance(chisqs, Len(z))
    /\ coeffs' = IF Improved(chisqs) THEN mlr ELSE coeffs
    /\ pc' = IF Converged(sig') THEN "return" ELSE "fit"
    /\ UNCHANGED << entry, error, result, caller, fitvars, data, rank, xy, z, mlr, r, chisqs >>

\* return (coeffs[:rank]), and what the caller does with it up to its next call
TrendReturn ==
    /\ pc = "return"
    /\ UNCHANGED << entry, error, rank_rng, rank_azi, SNR, matrix, matrix_fromfile,
                    given, file_read, rng, azi, prm >>
    /\ \/ /\ caller = "direct"
          /\ result' = {Take(coeffs, rank)}
          /\ pc' = "done"
          /\ UNCHANGED << caller, rng_coef, azi_coef, trendvars >>
       \/ /\ caller = "rng"
          /\ rng_coef' = Take(coeffs, rank)
          /\ Call("azi", azi, rank_azi)
          /\ UNCHANGED << result, azi_coef >>
       \/ /\ caller = "azi"
          /\ azi_coef' = Take(coeffs, rank)
          /\ pc' = "rescale"
          /\ UNCHANGED << result, caller, rng_coef, trendvars >>

\* fitoffset after the two fits: rescaling and the parameter record.
\* rng_coef[1], rng_coef[2], azi_coef[1], azi_coef[2] are read first
\* (IndexError when a list is shorter); a zero coordinate range makes the
\* shift nan, which int() refuses (ValueError)
FitoffsetRescale ==
    /\ pc = "rescale"
    /\ UNCHANGED << entry, result, caller, trendvars, rank_rng, rank_azi, SNR, matrix,
                    matrix_fromfile, given, file_read, rng, azi, rng_coef, azi_coef >>
    /\ LET sc == ScaleCoef(rng)
       IN  IF Len(rng_coef) < 3 \/ Len(azi_coef) < 3
           THEN Raise("IndexError") /\ UNCHANGED prm
           ELSE IF sc[2] = sc[1] \/ sc[4] = sc[3]
           THEN Raise("ValueError") /\ UNCHANGED prm
           ELSE /\ prm' = {OffsetParameters(rng_coef, azi_coef, sc)}
                /\ pc' = "done"
                /\ UNCHANGED error

Next ==
    \/ FitoffsetBegin /\ UNCHANGED << intfvars, updvars >>
    \/ TrendBegin /\ UNCHANGED << intfvars, updvars >>
    \/ TrendFit /\ UNCHANGED << intfvars, updvars >>
    \/ TrendReweight /\ UNCHANGED << intfvars, updvars >>
    \/ TrendReturn /\ UNCHANGED << intfvars, updvars >>
    \/ FitoffsetRescale /\ UNCHANGED << intfvars, updvars >>

Spec == Init /\ [][Next]_vars

\* direct calls of robust_trend2d alone
TrendInit == error = "" /\ result = {} /\ InitTrend /\ NoIntf /\ NoUpdate

TrendNext ==
    \/ TrendBegin /\ UNCHANGED << intfvars, updvars >>
    \/ TrendFit /\ UNCHANGED << intfvars, updvars >>
    \/ TrendReweight /\ UNCHANGED << intfvars, updvars >>
    \/ TrendReturn /\ UNCHANGED << intfvars, updvars >>

\* the statement robust_trend2d is at is executed: control leaves it
Advance ==
    /\ pc \in {"trend", "fit", "reweight", "return"}
    /\ pc' \in {"fit", "reweight", "return", "done", "raised"}
    /\ pc' # pc

\* the interpreter runs the call on: while a statement remains, one is
\* executed (every step of TrendNext moves pc, so this is weak fairness of
\* TrendNext)
FairTrendSpec == TrendInit /\ [][TrendNext]_vars /\ WF_pc(Advance)

\* most iterations followed when a whole call is evaluated at once
MaxIter == 30

\* the locals of the loop before the first iteration of a call on n points
FreshLocals(n) ==
    [ w |-> [i \in 1..n |-> Scale], chisqs |-> << >>, coeffs |-> << >>, sig |-> 0,
      mlr |-> << >> ]

\* the locals after an iteration that fitted m with residuals rr and
\* brought the history to h
Locals(st, m, rr, h, n) ==
    [ w      |-> Reweight(rr),
      chisqs |-> h,
      coeffs |-> IF Improved(h) THEN m ELSE st.coeffs,
      sig    |-> Significance(h, n),
      mlr    |-> m ]

\* one iteration of the loop (the body of while True up to the exit test)
\* on the locals st; each intermediate value is computed once
Iteration(u, zz, st) ==
    CHOOSE nx \in
        UNION { UNION { { Locals(st, m, rr, h, Len(zz)) :
                          h \in {Record(st.chisqs, Chisq(rr, st.w))} } :
                        rr \in {Residuals(m, u, zz)} } :
                m \in {Fit(u, zz, st.w)} } : TRUE

\* the loop from the locals st: the retained coefficients at the break, or
\* << >> when the loop is still running after n iterations
RECURSIVE Loop(_, _, _, _)
Loop(u, zz, st, n) ==
    IF n = 0 THEN << >>
    ELSE CHOOSE c \in { IF Converged(nx.sig) THEN nx.coeffs
                        ELSE Loop(u, zz, nx, n - 1) :
                        nx \in {Iteration(u, zz, st)} } : TRUE

\* the iterations the loop makes from the locals st up to its break (at
\* most n of them): for each its chi-squared and its fit
RECURSIVE Iterations(_, _, _, _)
Iterations(u, zz, st, n) ==
    IF n = 0 THEN << >>
    ELSE CHOOSE t \in { << << nx.chisqs[Len(nx.chisqs)], nx.mlr >> >>
                        \o (IF Converged(nx.sig) THEN << >>
                            ELSE Iterations(u, zz, nx, n - 1)) :
                        nx \in {Iteration(u, zz, st)} } : TRUE

\* the value of a whole call robust_trend2d(d, rk) with a valid rank
robust_trend2d(d, rk) ==
    Take(Loop(Regressors(d, rk), Col(d, 3), FreshLocals(Len(d)), MaxIter), rk)

\* ------------------------------------------------------------------------
\* SBAS_intf.intf_parallel: interferograms of all subswaths and pairs, in
\* chunks of jobs run by a pool of n_jobs workers
\* ------------------------------------------------------------------------

MaxPairs == 2
MaxSubswaths == 3
MaxJobs == 3

Digits == << "1", "2", "3", "4", "5", "6", "7", "8", "9" >>

\* the string numpy stores for an integer subswath, and int() of it
AsString(n) == Digits[n]
int(s) == CHOOSE n \in 1..Len(Digits) : Digits[n] = s

DatePairs ==
    << << "20210101", "20210113" >>, << "20210113", "20210125" >>,
       << "20210101", "20210125" >>, << "20210125", "20210206" >> >>

\* self.pairs(pairs)[['ref', 'rep']].astype(str).values
PairLists == { SubSeq(DatePairs, 1, n) : n \in 0..MaxPairs }

\* self.get_subswaths()
SubswathLists ==
    { [i \in 1..(b - a + 1) |-> a + i - 1] :
        a \in 1..MaxSubswaths, b \in 1..MaxSubswaths } \ { << >> }

\* [[subswath, pair[0], pair[1]] for subswath in subswaths for pair in pairs]
Subpairs(ss, ps) ==
    [k \in 1..(Len(ss) * Len(ps)) |->
        << AsString(ss[((k - 1) \div Len(ps)) + 1]),
           ps[((k - 1) % Len(ps)) + 1][1],
           ps[((k - 1) % Len(ps)) + 1][2] >>]

NChunks_Floor(len, n) == IF n > 0 THEN len \div n ELSE -(len \div (-n))

\* int(np.ceil(len(subpairs)/n_jobs)), n_jobs # 0
NChunks(len, n) ==
    IF n > 0 THEN (len + n - 1) \div n ELSE -(len \div (-n))

ArraySplit_Even(ary, n) ==
    [k \in 1..n |->
        SubSeq(ary, (k - 1) * (Len(ary) \div n) + 1, k * (Len(ary) \div n))]

\* np.array_split(ary, n), n > 0: the first len % n sections hold one item
\* more than the others
ArraySplit(ary, n) ==
    LET each == Len(ary) \div n
        extras == Len(ary) % n
        start(k) == (k - 1) * each + (IF k - 1 < extras THEN k - 1 ELSE extras)
        size(k) == each + (IF k <= extras THEN 1 ELSE 0)
    IN  [k \in 1..n |-> SubSeq(ary, start(k) + 1, start(k) + size(k))]

\* joblib.delayed(self.intf)(int(subswath), [date1, date2], **kwargs)
Delayed(item) == << int(item[1]), << item[2], item[3] >> >>

\* the jobs of one chunk, in order, and as a set
Calls(c) == [i \in 1..Len(c) |-> Delayed(c[i])]
Jobs(c) == { Delayed(c[i]) : i \in 1..Len(c) }

\* a call intf_parallel(pairs, n_jobs)
InitIntf ==
    /\ entry = "intf_parallel" /\ pc = "intf_parallel" /\ caller = ""
    /\ error = "" /\ result = {}
    /\ NoFitoffset /\ NoTrend /\ NoUpdate
    /\ pairs \in PairLists /\ subswaths \in SubswathLists
    /\ n_jobs \in -2..MaxJobs
    /\ subpairs = << >> /\ chunks = << >> /\ chunk = 0 /\ pbar = 0
    /\ dispatched = << >> /\ running = {} /\ finished = {}

IntfFrame == UNCHANGED << entry, caller, result, fitvars, trendvars, updvars >>

\* up to the progress bar: n_jobs, subpairs, n_chunks, chunks
IntfBegin ==
    /\ pc = "intf_parallel"
    /\ \E cpu_count \in IF n_jobs = -1 THEN 1..MaxJobs ELSE {n_jobs} :
          LET sp == Subpairs(subswaths, pairs)
          IN  /\ n_jobs' = cpu_count
              /\ subpairs' = sp
              /\ IF cpu_count = 0
                 THEN Raise("ZeroDivisionError") /\ UNCHANGED << chunks, pbar >>
                 ELSE IF NChunks(Len(sp), cpu_count) <= 0
                 THEN Raise("ValueError") /\ UNCHANGED << chunks, pbar >>
                 ELSE /\ chunks' = ArraySplit(sp, NChunks(Len(sp), cpu_count))
                      /\ pbar' = 0
                      /\ pc' = "chunks"
                      /\ UNCHANGED error
    /\ UNCHANGED << pairs, subswaths, chunk, dispatched, running, finished >>
    /\ IntfFrame

\* for chunk in chunks: the executor of the chunk before is shut down, its
\* workers killed, and the jobs of this chunk are handed to joblib.Parallel
ChunkStart ==
    /\ pc = "chunks" /\ chunk < Len(chunks)
    /\ chunk' = chunk + 1
    /\ dispatched' = dispatched \o Calls(chunks[chunk + 1])
    /\ running' = {}
    /\ pc' = "parallel"
    /\ UNCHANGED << error, pairs, subswaths, n_jobs, subpairs, chunks, pbar,
                    finished >>
    /\ IntfFrame

\* a free worker of the backend's n_jobs workers takes a job of the chunk
JobStart(j) ==
    /\ pc = "parallel"
    /\ j \in Jobs(chunks[chunk]) \ (running \cup finished)
    /\ Cardinality(running) < n_jobs
    /\ running' = running \cup {j}
    /\ UNCHANGED << pc, error, pairs, subswaths, n_jobs, subpairs, chunks,
                    chunk, pbar, dispatched, finished >>
    /\ IntfFrame

\* self.intf returns in its worker
JobFinish(j) ==
    /\ pc = "parallel" /\ j \in running
    /\ running' = running \ {j}
    /\ finished' = finished \cup {j}
    /\ UNCHANGED << pc, error, pairs, subswaths, n_jobs, subpairs, chunks,
                    chunk, pbar, dispatched >>
    /\ IntfFrame

\* self.intf raises in its worker: joblib.Parallel raises in intf_parallel
JobRaise(j) ==
    /\ pc = "parallel" /\ j \in running
    /\ running' = running \ {j}
    /\ Raise("OSError")
    /\ UNCHANGED << pairs, subswaths, n_jobs, subpairs, chunks, chunk, pbar,
                    dispatched, finished >>
    /\ IntfFrame

\* joblib.Parallel returns when every job of the chunk has; pbar.update
ChunkJoin ==
    /\ pc = "parallel"
    /\ Jobs(chunks[chunk]) \subseteq finished
    /\ pbar' = pbar + Len(chunks[chunk])
    /\ pc' = "chunks"
    /\ UNCHANGED << error, pairs, subswaths, n_jobs, subpairs, chunks, chunk,
                    dispatched, running, finished >>
    /\ IntfFrame

\* the loop is over
IntfReturn ==
    /\ pc = "chunks" /\ chunk = Len(chunks)
    /\ pc' = "done"
    /\ UNCHANGED << error, intfvars >>
    /\ IntfFrame

AllJobs ==
    { << s, DatePairs[i] >> : s \in 1..Len(Digits), i \in 1..Len(DatePairs) }

IntfNext ==
    \/ IntfBegin
    \/ ChunkStart
    \/ \E j \in AllJobs : JobStart(j)
    \/ \E j \in AllJobs : JobFinish(j)
    \/ \E j \in AllJobs : JobRaise(j)
    \/ ChunkJoin
    \/ IntfReturn

\* the interpreter and the workers keep running: while a step of the call
\* remains, one is taken
IntfSpec == InitIntf /\ [][IntfNext]_vars /\ WF_vars(IntfNext)

\* ------------------------------------------------------------------------
\* PRM.update: save the PRM file and rename its linked files
\* A path is << directory, name without extension, extension >>; a value
\* of the PRM without a directory has directory "".
\* ------------------------------------------------------------------------

ThisName == CHOOSE f \in filename : TRUE
NewName == CHOOSE n \in name : TRUE

\* os.path.dirname(self.filename)
dirname(path) == path[1]

\* os.path.join(dirname0, os.path.split(self.get(key))[-1])
File0(key) == << dirname0, df[key][2], df[key][3] >>

\* basename + ext, basename = os.path.splitext(name)[0]
NewFile(ext) == << NewName[1], NewName[2], ext >>

\* f'{shortname}{ext}', shortname = os.path.split(basename)[-1]
ShortFile(ext) == << "", NewName[2], ext >>

PrmFiles == { << "raw", "S1_a", "PRM" >>, << "", "S1_a", "PRM" >> }

NewNames == { << d, s, "PRM" >> : d \in {"raw", "out"}, s \in {"S1_a", "S1_b"} }

InputFiles == { << "", "S1_a", "raw" >>, << "orig", "S1_a", "tiff" >> }

Linked(input) ==
    [input_file |-> input, SLC_file |-> << "", "S1_a", "SLC" >>,
     led_file |-> << "", "S1_a", "LED" >>]

\* the files that may be on disk when update is called
DiskFiles(f, d) ==
    { f, << f[1], d.input_file[2], d.input_file[3] >>,
      << f[1], "S1_a", "SLC" >>, << f[1], "S1_a", "LED" >>,
      << "out", "S1_b", "SLC" >> }

\* a call self.update(name, safe, debug)
InitUpdate ==
    /\ entry = "update" /\ pc = "update" /\ caller = ""
    /\ error = "" /\ result = {}
    /\ NoFitoffset /\ NoTrend /\ NoIntf
    /\ \E f \in PrmFiles, input \in InputFiles :
          /\ filename \in {{}, {f}}
          /\ df = Linked(input)
          /\ files \in SUBSET DiskFiles(f, df)
    /\ name \in {{}} \cup { {n} : n \in NewNames }
    /\ safe \in BOOLEAN /\ debug \in BOOLEAN
    /\ dirname0 = "" /\ ops = << >> /\ stdout = << >>
    /\ before = [filename |-> filename, df |-> df, files |-> files]

UpdateFrame ==
    UNCHANGED << entry, caller, result, fitvars, trendvars, intfvars, name,
                 safe, debug, before >>

\* the test of self.filename, the debug message, and the PRM file's own
\* renaming
UpdateBegin ==
    /\ pc = "update"
    /\ IF filename = {}
       THEN /\ Raise("Exception")
            /\ UNCHANGED << filename, dirname0, files, ops, stdout >>
       ELSE LET out == (IF debug THEN << "Debug mode" >> ELSE << >>)
                       \o (IF name # {} /\ ~safe
                           THEN << "Remove old PRM file" >> ELSE << >>)
                removes == ~safe /\ ~debug
            IN  IF name = {}
                THEN /\ stdout' = out
                     /\ pc' = "save"
                     /\ UNCHANGED << error, filename, dirname0, files, ops >>
                ELSE IF removes /\ ThisName \notin files
                THEN /\ stdout' = out
                     /\ Raise("FileNotFoundError")
                     /\ UNCHANGED << filename, dirname0, files, ops >>
                ELSE /\ stdout' = out
                     /\ dirname0' = dirname(ThisName)
                     /\ files' = IF removes THEN files \ {ThisName} ELSE files
                     /\ ops' = IF removes THEN << << "remove", ThisName >> >>
                               ELSE << >>
                     /\ filename' = name
                     /\ pc' = "input_file"
                     /\ UNCHANGED error
    /\ UNCHANGED df
    /\ UpdateFrame

\* the step for one linked file: its new value in the PRM, and the file
\* renamed (or, where safe mode copies, copied) unless debug
Relink(key, ext, copies, next) ==
    LET file0 == File0(key)
        file == NewFile(ext)
        acts == file0 \in files /\ file # file0 /\ ~debug
    IN  /\ df' = [df EXCEPT ![key] = ShortFile(ext)]
        /\ files' = IF ~acts THEN files
                    ELSE IF copies THEN files \cup {file}
                    ELSE (files \ {file0}) \cup {file}
        /\ ops' = IF ~acts THEN ops
                  ELSE IF copies THEN Append(ops, << "copy2", file0, file >>)
                  ELSE Append(ops, << "rename", file0, file >>)
        /\ pc' = next
        /\ UNCHANGED << error, filename, dirname0, stdout >>
        /\ UpdateFrame

\* input_file keeps its extension; safe mode copies it
UpdateInput ==
    /\ pc = "input_file"
    /\ Relink("input_file", File0("input_file")[3], safe, "SLC_file")

\* the SLC file is renamed in safe mode too
UpdateSLC ==
    /\ pc = "SLC_file"
    /\ Relink("SLC_file", "SLC", FALSE, "led_file")

UpdateLED ==
    /\ pc = "led_file"
    /\ Relink("led_file", "LED", safe, "save")

\* debug returns self; otherwise self.to_file(self.filename) writes the file
UpdateSave ==
    /\ pc = "save"
    /\ files' = IF debug THEN files ELSE files \cup {ThisName}
    /\ ops' = IF debug THEN ops ELSE Append(ops, << "write", ThisName >>)
    /\ pc' = "done"
    /\ UNCHANGED << error, filename, df, dirname0, stdout >>
    /\ UpdateFrame

UpdateNext ==
    \/ UpdateBegin
    \/ UpdateInput
    \/ UpdateSLC
    \/ UpdateLED
    \/ UpdateSave

UpdateSpec == InitUpdate /\ [][UpdateNext]_vars

\* ------------------------------------------------------------------------
\* Properties
\* ------------------------------------------------------------------------

\* robust_trend2d has been entered and is past its rank test
PastRankTest == data # << >> /\ pc # "trend"

\* no fit has been made by the current call of robust_trend2d
NothingFitted == mlr = << >> /\ r = << >> /\ chisqs = << >> /\ coeffs = << >>

\* C1: robust_trend2d called with a rank outside {1,2,3} raises before any
\* fitting and returns no coefficients; with a rank in {1,2,3} that error is
\* never raised.
C1_RankError ==
    /\ (PastRankTest /\ rank \notin {1, 2, 3}) =>
          /\ pc = "raised" /\ error = "BadRank"
          /\ NothingFitted
          /\ result = {} /\ prm = {}
          /\ (caller = "rng" => rng_coef = << >>)
          /\ (caller = "azi" => azi_coef = << >>)
    /\ (error = "BadRank" => rank \notin {1, 2, 3})
    /\ (pc \in {"fit", "reweight", "return"} => rank \in {1, 2, 3})

\* the rank error raised by the second fit of fitoffset, after the first
\* fit has returned its coefficients
C1_Witness ==
    /\ error = "BadRank" /\ caller = "azi" /\ rank = 4
    /\ rng_coef # << >> /\ azi_coef = << >>

\* C2: fitoffset raises when both matrix and matrix_fromfile are supplied
\* and when neither is, before any file is read and before any fit; with
\* exactly one of them supplied that error is not raised.
C2_SourceError ==
    /\ (entry = "fitoffset" /\ pc # "fitoffset" /\ Cardinality(given) # 1) =>
          /\ pc = "raised" /\ error = "OneAndOnlyOne"
          /\ ~file_read
          /\ rng = << >> /\ azi = << >>
          /\ data = << >> /\ NothingFitted
          /\ prm = {}
    /\ (error = "OneAndOnlyOne" => Cardinality(given) # 1)

C2_Witness ==
    error = "OneAndOnlyOne" /\ given = {"matrix", "file"} /\ ~file_read

\* the array fitoffset works on, once it is past its argument test
Loaded == CHOOSE m \in matrix : TRUE

PastSourceTest == entry = "fitoffset" /\ pc # "fitoffset" /\ error # "OneAndOnlyOne"

\* the rows (by index) whose SNR is strictly above the threshold
Passing == {i \in 1..Len(Loaded) : Loaded[i][5] > SNR}

\* the j-th passing row
PassingRow(j) == CHOOSE i \in Passing : Cardinality({h \in Passing : h <= i}) = j

RanksValid == rank_rng \in {1, 2, 3} /\ rank_azi \in {1, 2, 3}

ThePrm == CHOOSE p \in prm : TRUE

\* C3: fitoffset raises the not-enough-points error if and only if fewer
\* than 8 rows pass the SNR filter: with 7 or fewer it raises and produces
\* no result, with exactly 8 it succeeds (raises nothing and ends with the
\* parameter record).
C3_EightRowsSucceed ==
    (PastSourceTest /\ RanksValid) =>
        /\ (error = "NotEnoughPoints") = (Cardinality(Passing) < 8)
        /\ (Cardinality(Passing) < 8 => (pc = "raised" /\ prm = {}))
        /\ (Cardinality(Passing) = 8 =>
               (error = "" /\ (pc = "done" => prm # {})))

\* coef[0] - coef[1]*... - coef[2]*..., the terms of missing coefficients left out
ShiftOmitting(coef, sc) ==
    coef[1]
    - (IF Len(coef) >= 2 THEN RoundDiv(coef[2] * (sc[2] + sc[1]), sc[2] - sc[1]) ELSE 0)
    - (IF Len(coef) >= 3 THEN RoundDiv(coef[3] * (sc[4] + sc[3]), sc[4] - sc[3]) ELSE 0)

\* C4: for every rank_rng and rank_azi in {1,2,3} and at least 8 passing
\* rows, fitoffset returns the complete 8-field record; for a rank below 3
\* the terms of the coefficients the fit does not provide are left out of
\* the shift instead of making the call fail.
C4_AllRanksReturn ==
    (PastSourceTest /\ RanksValid /\ Len(rng) >= 8 /\ pc \in {"done", "raised"}) =>
        /\ error = "" /\ prm # {}
        /\ DOMAIN ThePrm = {"rshift", "sub_int_r", "stretch_r", "a_stretch_r",
                            "ashift", "sub_int_a", "stretch_a", "a_stretch_a"}
        /\ ThePrm.rshift * Scale + ThePrm.sub_int_r = ShiftOmitting(rng_coef, ScaleCoef(rng))
        /\ ThePrm.ashift * Scale + ThePrm.sub_int_a = ShiftOmitting(azi_coef, ScaleCoef(rng))

\* floor(v) as a whole number, and v - floor(v)
Floor(v) == v \div Scale

FloorFrac(v) == v - Scale * Floor(v)

Returned == entry = "fitoffset" /\ pc = "done" /\ prm # {}

RangeShift == Shift(rng_coef, ScaleCoef(rng))

AzimuthShift == Shift(azi_coef, ScaleCoef(rng))

\* the stored split of shift v is the floor split
FloorSplit(v, ipart, fpart) ==
    ipart = Floor(v) /\ fpart = FloorFrac(v) /\ 0 <= fpart /\ fpart < Scale

\* C5: for every shift, negative whole numbers included, the
\* stored integer part is floor(shift) and the stored fractional part is
\* shift - floor(shift), in [0, 1).
C5_FloorForEveryShift ==
    Returned =>
        /\ FloorSplit(RangeShift, ThePrm.rshift, ThePrm.sub_int_r)
        /\ FloorSplit(AzimuthShift, ThePrm.ashift, ThePrm.sub_int_a)

\* the weights w are those computed from the residuals r
Reweighted == pc \in {"fit", "return", "rescale", "done"} /\ r # << >>

\* C6: after every weight update each weight lies in [0, 1], and is exactly
\* 1 for every point whose residual is at or below the threshold k
\* (k = 0 included).
C6_WeightRange ==
    Reweighted =>
        \A i \in 1..Len(r) :
            /\ 0 <= w[i] /\ w[i] <= Scale
            /\ (r[i] <= TuningK(r) => w[i] = Scale)

\* an update with a positive threshold, a point below it and a point whose
\* residual is more than twice the threshold
C6_Witness ==
    /\ Reweighted /\ TuningK(r) > 0
    /\ \E i, j \in 1..Len(r) :
          /\ r[i] <= TuningK(r) /\ w[i] = Scale
          /\ r[j] > 2 * TuningK(r) /\ w[j] > 0 /\ w[j] < Scale

\* C7: within one weight update, for two points a and b with
\* |residual_a| > |residual_b| > k, the weight of a is at most that of b.
C7_WeightMonotone ==
    Reweighted =>
        \A a, b \in 1..Len(r) :
            (r[a] > r[b] /\ r[b] > TuningK(r)) => w[a] <= w[b]

C7_Witness ==
    /\ Reweighted
    /\ \E a, b \in 1..Len(r) :
          r[a] > r[b] /\ r[b] > TuningK(r) /\ w[a] < w[b] /\ w[a] > 0

\* point sets lying exactly on a trend of rank rk
ExactPointSets(rk) ==
    { [i \in 1..np |-> << PixelX(i), PixelY(i), RangeOffset(i, rk, 0, 0) >>] :
        np \in MinPts..MaxPts }

ExactCall ==
    /\ entry = "robust_trend2d" /\ pc = "trend"
    /\ rank \in {1, 2, 3} /\ data \in ExactPointSets(rank)

\* the coefficients c reproduce every z of the call exactly
ExactCoefficients(c) ==
    /\ Len(c) = rank
    /\ \A i \in 1..Len(z) : Residuals(c \o << 0 >>, xy, z)[i] = 0

\* C8: for every rank in {1,2,3} and data lying exactly on a trend of that
\* rank, robust_trend2d returns, and returns the true coefficients.
C8_ExactDataReturns ==
    ExactCall ~> (pc = "done" /\ \E c \in result : ExactCoefficients(c))

C10_ResultLength ==
    /\ \A c \in result : Len(c) = rank /\ c = [j \in 1..rank |-> coeffs[j]]
    /\ (rng_coef # << >> => Len(rng_coef) = rank_rng)
    /\ (azi_coef # << >> =>
           Len(azi_coef) = rank_azi /\ azi_coef = [j \in 1..rank |-> coeffs[j]])
    /\ (coeffs # << >> =>
           /\ Len(coeffs) = Len(xy) + 1
           /\ (rank >= 2 => xy[1] = Normalize(Col(data, 1)))
           /\ (rank = 3 => xy[2] = Normalize(Col(data, 2))))

\* a rank 1 call that returned one entry of the two the fit produced
C10_Witness ==
    /\ pc = "done" /\ rank = 1 /\ Len(coeffs) = 2
    /\ \E c \in result : Len(c) = 1

\* the rows of the loaded matrix that pass the filter, in matrix order
Kept == [j \in 1..Cardinality(Passing) |-> Loaded[PassingRow(j)]]

\* robust_trend2d is running, or has run, for the range (azimuth) fit of
\* fitoffset and is past its rank test
InFit(c) ==
    /\ entry = "fitoffset" /\ caller = c /\ data # << >>
    /\ pc \in {"fit", "reweight", "return"}

\* the fit in progress takes x from matrix column cx, y from column cy and
\* z from column cz (columns counted from 0)
FitReads(cx, cy, cz) ==
    /\ Len(z) = Len(Kept)
    /\ z = [j \in 1..Len(Kept) |-> Kept[j][cz + 1]]
    /\ (rank >= 2 => xy[1] = Normalize([j \in 1..Len(Kept) |-> Kept[j][cx + 1]]))
    /\ (rank = 3 => xy[2] = Normalize([j \in 1..Len(Kept) |-> Kept[j][cy + 1]]))

\* C11: the range fit has x = column 0, y = column 1 and z = column 2 of
\* the matrix, and the azimuth fit has x = column 0, y = column 1 and
\* z = column 3.
C11_SpecColumns ==
    /\ (InFit("rng") => FitReads(0, 1, 2))
    /\ (InFit("azi") => FitReads(0, 1, 3))

\* C11 as amended: with rows laid out as [range_pixel, range_offset,
\* azimuth_pixel, azimuth_offset, snr], the range fit has x = column 0,
\* y = column 2 (azimuth_pixel) and z = column 1 (range_offset), and the
\* azimuth fit has x = column 0, y = column 2 and z = column 3
\* (azimuth_offset).
C11_CodeColumns ==
    /\ (InFit("rng") => FitReads(0, 2, 1))
    /\ (InFit("azi") => FitReads(0, 2, 3))

\* the azimuth fit of rank 3 at work on rows of which one was filtered out
C11_Witness ==
    /\ InFit("azi") /\ rank = 3 /\ pc = "reweight"
    /\ Len(z) < Len(Loaded)
    /\ xy[1] # xy[2]

\* the chi-squared of the last iteration and of the one before it
ChisqCur == chisqs[Len(chisqs)]

ChisqPrev == chisqs[Len(chisqs) - 1]

\* the second or a later iteration has been completed: sig is its significance
LaterIteration ==
    /\ pc \in {"fit", "return", "rescale", "done"}
    /\ Len(chisqs) >= 2

\* C12: on the second and every later iteration the significance is 1 if
\* the previous chi-squared is 0, otherwise 0 if the current one is 0,
\* otherwise the incomplete beta function with both shape parameters
\* 0.5*(N-3) at chisq_cur / (chisq_cur + chisq_prev).
C12_ClaimedSignificance ==
    LaterIteration =>
        sig = IF ChisqPrev = 0 THEN SigRes
              ELSE IF ChisqCur = 0 THEN 0
              ELSE betainc(Len(z) - 3, BetaArg(ChisqPrev, ChisqCur))

\* C12 as amended: on the second and every later iteration the significance
\* is 1 if the current chi-squared is 0, otherwise 0 if the previous one is
\* 0, otherwise the incomplete beta function with both shape parameters
\* 0.5*(N-3) at chisq_prev / (chisq_prev + chisq_cur).
C12_Significance ==
    LaterIteration =>
        sig = IF ChisqCur = 0 THEN SigRes
              ELSE IF ChisqPrev = 0 THEN 0
              ELSE betainc(Len(z) - 3, BetaArg(ChisqCur, ChisqPrev))

\* a later iteration whose chi-squared improved on a nonzero previous one
\* and whose significance lies strictly between one half and 1
C12_Witness ==
    /\ LaterIteration
    /\ ChisqCur # 0 /\ ChisqCur < ChisqPrev
    /\ 2 * sig > SigRes /\ sig < SigRes

\* a call of robust_trend2d with a valid rank on at least 4 points
ValidCall ==
    /\ entry = "robust_trend2d" /\ pc = "trend"
    /\ rank \in {1, 2, 3} /\ Len(data) >= 4

\* the loop was left on a significance below 0.51 and the call has returned
LoopLeft == pc = "done" /\ result # {} /\ 100 * sig < 51 * SigRes

\* C13: for every valid input the reweighting loop is bounded: after
\* finitely many iterations the significance falls below 0.51 and the
\* function returns, also when a chi-squared of exactly 0 is reached.
C13_LoopEnds == ValidCall ~> LoopLeft

\* the loop has been left: robust_trend2d is at its return statement or has
\* handed its result to the caller, who has not called again
LoopExited ==
    \/ pc \in {"return", "rescale", "done"}
    \/ pc = "raised" /\ error \in {"IndexError", "ValueError"}

\* an iteration has been completed and the loop goes on with another fit
LoopContinues == pc = "fit" /\ chisqs # << >>

\* C14: the loop never exits after the first iteration (its significance is
\* 1, so at least two weighted fits are made), and after any later
\* iteration it exits exactly when that iteration's significance is below
\* 0.51 and continues otherwise.
C14_ExitRule ==
    /\ (LoopExited /\ chisqs # << >>) =>
           (Len(chisqs) >= 2 /\ 100 * sig < 51 * SigRes)
    /\ LoopContinues =>
           /\ 100 * sig >= 51 * SigRes
           /\ (Len(chisqs) = 1 => sig = SigRes)

\* the loop went on after its second iteration and was left after a later one
C14_Witness ==
    /\ pc = "return" /\ Len(chisqs) >= 3
    /\ sig > 0 /\ 100 * sig < 51 * SigRes

\* the first rk entries of c
FirstEntries(c, rk) == [j \in 1..rk |-> c[j]]

C16_NegativeWeight ==
    Reweighted =>
        \A i \in 1..Len(r) : r[i] > 2 * TuningK(r) => w[i] < 0

\* C16 as amended: the weight update never produces a negative weight: a
\* point whose residual r exceeds 2k receives the weight
\* 2k/r - k^2/r^2 = 1 - (1 - k/r)^2, which lies between 0 and 3/4 (0 when
\* k = 0).  On the grid the weight is rounded, by at most half a step.
C16_WeightBeyond2k ==
    Reweighted =>
        \A i \in 1..Len(r) :
            r[i] > 2 * TuningK(r) =>
                /\ 0 <= w[i] /\ 4 * w[i] <= 3 * Scale + 2
                /\ (TuningK(r) = 0 => w[i] = 0)
                /\ (50 * TuningK(r) > r[i] => w[i] > 0)

\* an update in which one point lies beyond 3k and keeps a positive weight
\* and, in the same call, a threshold k above 0
C16_Witness ==
    /\ Reweighted /\ TuningK(r) > 0
    /\ \E i \in 1..Len(r) :
          r[i] > 3 * TuningK(r) /\ w[i] > 0 /\ 4 * w[i] < 3 * Scale

\* [min x, max x, min y, max y] of an N x 3 point set
BoundsOf(d) ==
    << Min([i \in 1..Len(d) |-> d[i][1]]), Max([i \in 1..Len(d) |-> d[i][1]]),
       Min([i \in 1..Len(d) |-> d[i][2]]), Max([i \in 1..Len(d) |-> d[i][2]]) >>

\* the fit in progress normalized x and y with the bounds b
NormalizedWith(b) ==
    /\ (rank >= 2 =>
           xy[1] = [i \in 1..Len(data) |-> Interp(data[i][1], b[1], b[2])])
    /\ (rank = 3 =>
           xy[2] = [i \in 1..Len(data) |-> Interp(data[i][2], b[3], b[4])])

\* the record p holds the shift, stretch and a_stretch of both fits
\* rescaled with the bounds b
RescaledWith(p, b) ==
    /\ p.rshift * Scale + p.sub_int_r = Shift(rng_coef, b)
    /\ p.ashift * Scale + p.sub_int_a = Shift(azi_coef, b)
    /\ p.stretch_r = gformat(Stretch(rng_coef[2], b[1], b[2]))
    /\ p.stretch_a = gformat(Stretch(azi_coef[2], b[1], b[2]))
    /\ p.a_stretch_r = gformat(Stretch(rng_coef[3], b[3], b[4]))
    /\ p.a_stretch_a = gformat(Stretch(azi_coef[3], b[3], b[4]))

\* C17: fitoffset takes one set of bounds [min x, max x, min y, max y] from
\* the range point set and rescales both fits with exactly these bounds,
\* and they are the min/max with which robust_trend2d normalized x and y
\* inside both fits.
C17_SharedBounds ==
    /\ (PastSourceTest /\ rng # << >>) => BoundsOf(rng) = BoundsOf(azi)
    /\ (InFit("rng") \/ InFit("azi")) => NormalizedWith(BoundsOf(rng))
    /\ Returned =>
          /\ RescaledWith(ThePrm, BoundsOf(rng))
          /\ RescaledWith(ThePrm, BoundsOf(azi))

\* a returned record in which both fits have a slope in x and a slope in y
C17_Witness ==
    /\ Returned
    /\ ThePrm.stretch_r # 0 /\ ThePrm.a_stretch_r # 0
    /\ ThePrm.stretch_a # 0 /\ ThePrm.a_stretch_a # 0
    /\ BoundsOf(rng)[1] < BoundsOf(rng)[2] /\ BoundsOf(rng)[3] < BoundsOf(rng)[4]

\* the point set d with the columns a fit of rank rk does not read replaced
\* by other values: x and y for rank 1, y for rank 2
OtherColumns(d, rk) ==
    [i \in 1..Len(d) |->
        << IF rk = 1 THEN d[i][2] + i * i ELSE d[i][1],
           IF rk \in {1, 2} THEN d[i][1] + 7 * ((i * i) % 5) ELSE d[i][2],
           d[i][3] >>]

\* C18: the result of robust_trend2d depends only on the columns its rank
\* uses: for rank 1 inputs with the same z column give the same result
\* whatever x and y are, and for rank 2 inputs with the same x and z
\* columns give the same result whatever y is.
C18_UnusedColumns ==
    (entry = "robust_trend2d" /\ pc = "done" /\ rank \in {1, 2}) =>
        /\ result = {robust_trend2d(OtherColumns(data, rank), rank)}
        /\ result = {robust_trend2d(OtherColumns(OtherColumns(data, rank), rank), rank)}

\* a rank 2 call has returned a slope, and the point set it is compared
\* with has a y column that differs in more than an offset and a factor
C18_Witness ==
    /\ entry = "robust_trend2d" /\ pc = "done" /\ rank = 2
    /\ \E c \in result : Len(c) = 2 /\ c[2] # 0
    /\ Normalize(Col(OtherColumns(data, 2), 2)) # Normalize(Col(data, 2))
    /\ Col(OtherColumns(data, 2), 1) = Col(data, 1)

\* what each call has returned is what a call of its own, on the same
\* input and with nothing before it, returns
SameAsFreshCall ==
    /\ (entry = "robust_trend2d" /\ pc = "done") =>
           result = {robust_trend2d(data, rank)}
    /\ (entry = "fitoffset" /\ caller = "azi" /\ pc = "trend") =>
           rng_coef = robust_trend2d(rng, rank_rng)
    /\ (entry = "fitoffset" /\ pc = "rescale") =>
           azi_coef = robust_trend2d(azi, rank_azi)

\* a step leaves the arrays handed to the two functions as they are
InputsKept ==
    /\ matrix_fromfile' = matrix_fromfile
    /\ ("matrix" \in given => matrix' = matrix)
    /\ (pc # "fitoffset" => matrix' = matrix /\ rng' = rng /\ azi' = azi)
    /\ (pc \in {"trend", "fit", "reweight"} => data' = data)
    /\ (pc = "return" /\ caller # "rng" => data' = data)

\* C19: robust_trend2d and fitoffset leave their input unchanged and keep
\* no state between calls: a call on the same input gives the same result,
\* and the result of a call does not depend on an earlier call with other
\* input.
C19_NoStateBetweenCalls == []SameAsFreshCall /\ [][InputsKept]_vars

\* the second fit of fitoffset has returned after a first fit on other
\* input and of another rank, with another result
C19_Witness ==
    /\ entry = "fitoffset" /\ pc = "rescale"
    /\ rank_rng # rank_azi /\ rng # azi
    /\ rng_coef # << >> /\ azi_coef # << >> /\ rng_coef # azi_coef

\* in the history t (chi-squared and fit of every iteration) iteration k
\* has the smallest chi-squared and is the earliest that has it
EarliestBest(t, k) ==
    /\ \A j \in 1..Len(t) : t[k][1] <= t[j][1]
    /\ \A j \in 1..(k - 1) : t[j][1] > t[k][1]

AddUp(v, ipart, fpart) ==
    /\ ipart * Scale + fpart = v
    /\ 0 <= fpart /\ fpart <= Scale

\* C21: for every shift the integer part and the fractional part computed
\* by fitoffset add up to the shift (before 'g' formatting), and the
\* fractional part lies in [0, 1].
C21_PartsAddUp ==
    Returned =>
        /\ AddUp(RangeShift, IntPart(RangeShift), FracPart(RangeShift))
        /\ AddUp(AzimuthShift, IntPart(AzimuthShift), FracPart(AzimuthShift))
        /\ ThePrm.rshift = IntPart(RangeShift)
        /\ ThePrm.ashift = IntPart(AzimuthShift)
        /\ ThePrm.sub_int_r = gformat(FracPart(RangeShift))
        /\ ThePrm.sub_int_a = gformat(FracPart(AzimuthShift))

\* a returned record with a negative shift whose fractional part is the
\* whole 1, the upper end of the interval
C21_Witness ==
    /\ Returned
    /\ \E v \in {RangeShift, AzimuthShift} :
          v < 0 /\ FracPart(v) = Scale /\ IntPart(v) * Scale + Scale = v

\* pixel positions at which the two forms of a fitted trend are compared:
\* those of the measurements and some between and outside them
ProbeX == {rng[i][1] : i \in 1..Len(rng)} \cup {0, 37, 250}

ProbeY == {rng[i][2] : i \in 1..Len(rng)} \cup {0, 13, 120}

\* shift + stretch*x + a_stretch*y, in units 1 / Scale^3
Rescaled(shift, stretch, a_stretch, x, y) ==
    shift * Scale * Scale + stretch * x + a_stretch * y

\* coef[0] + coef[1]*xn + coef[2]*yn with xn, yn the positions x, y mapped
\* linearly from [min, max] to [-1, +1] (bounds b), in units 1 / Scale^3
InNormalized(coef, b, x, y) ==
    Scale * ( coef[1] * Scale
              + RoundDiv(coef[2] * Scale * (2 * x - (b[1] + b[2])), b[2] - b[1])
              + RoundDiv(coef[3] * Scale * (2 * y - (b[3] + b[4])), b[4] - b[3]) )

\* the two values agree up to the rounding of the grid (0.02)
Agree(a, b) == Abs(a - b) <= 2 * Scale * Scale

\* C22: for rank 3 fits with max > min in both coordinates the rescaling of
\* fitoffset inverts the normalization of the fit: at every pixel position
\* (x, y), shift + stretch*x + a_stretch*y equals
\* coef[0] + coef[1]*xn + coef[2]*yn, for the range and for the azimuth fit.
C22_RescalingInverts ==
    Returned =>
        \A x \in ProbeX, y \in ProbeY :
            /\ Agree(Rescaled(ThePrm.rshift * Scale + ThePrm.sub_int_r,
                              ThePrm.stretch_r, ThePrm.a_stretch_r, x, y),
                     InNormalized(rng_coef, BoundsOf(rng), x, y))
            /\ Agree(Rescaled(ThePrm.ashift * Scale + ThePrm.sub_int_a,
                              ThePrm.stretch_a, ThePrm.a_stretch_a, x, y),
                     InNormalized(azi_coef, BoundsOf(rng), x, y))

\* a returned record of two rank 3 fits that both slope in x and in y, with
\* shifts that differ from the intercepts of the fits
C22_Witness ==
    /\ Returned /\ rank_rng = 3 /\ rank_azi = 3
    /\ rng_coef[2] # 0 /\ rng_coef[3] # 0 /\ azi_coef[2] # 0 /\ azi_coef[3] # 0
    /\ RangeShift # rng_coef[1] /\ AzimuthShift # azi_coef[1]

\* fitoffset has left its first statements (tests, loading, filtering)
Begun == entry = "fitoffset" /\ pc # "fitoffset"

OneSource == Cardinality(given) = 1

\* C23: fitoffset tests its failure conditions in the order matrix source,
\* number of passing rows, rank_rng, rank_azi and reports the first that
\* applies; the rank error for rank_azi comes only after the range fit has
\* finished; in every failing case no parameter record is returned.
C23_FailureOrder ==
    /\ Begun =>
          /\ (error = "OneAndOnlyOne") = ~OneSource
          /\ OneSource =>
                (error = "NotEnoughPoints") = (Cardinality(Passing) < 8)
          /\ (OneSource /\ Cardinality(Passing) >= 8 /\ rank_rng \notin {1, 2, 3}) =>
                (caller = "rng" /\ rng_coef = << >>
                 /\ (pc # "trend" => error = "BadRank"))
          /\ error = "BadRank" =>
                /\ OneSource /\ Cardinality(Passing) >= 8
                /\ IF rank_rng \notin {1, 2, 3}
                   THEN caller = "rng"
                   ELSE /\ caller = "azi" /\ rank_azi \notin {1, 2, 3}
                        /\ Len(rng_coef) = rank_rng
                        /\ azi_coef = << >>
    /\ (pc = "raised" => prm = {} /\ result = {})
    /\ (error # "" => pc = "raised")

\* fewer than 8 passing rows together with two invalid ranks: the
\* not-enough-points error is the one raised
C23_Witness ==
    /\ Begun /\ error = "NotEnoughPoints"
    /\ rank_rng \notin {1, 2, 3} /\ rank_azi \notin {1, 2, 3}
    /\ Cardinality(Passing) = 7 /\ prm = {}

\* intf_parallel is past its preparation: the chunks are made
Chunked == entry = "intf_parallel" /\ chunks # << >>

\* the jobs of the chunks before the one the loop is at
Earlier == UNION { Jobs(chunks[k]) : k \in 1..(chunk - 1) }

\* C24: with n_jobs >= 1 and a non-empty list of combinations, no chunk holds
\* more than n_jobs jobs, no more than n_jobs jobs are running at a time,
\* the running jobs belong to the chunk the loop is at, and every job of the
\* chunks before it has finished.
C24_ChunksBounded ==
    Chunked =>
       /\ n_jobs >= 1 /\ subpairs # << >>
       /\ \A k \in 1..Len(chunks) : Len(chunks[k]) <= n_jobs
       /\ Cardinality(running) <= n_jobs
       /\ chunk = 0 => running = {} /\ finished = {} /\ dispatched = << >>
       /\ chunk > 0 => running \subseteq Jobs(chunks[chunk])
       /\ Earlier \subseteq finished
       /\ Earlier \cap running = {}

C24_Witness ==
    /\ Chunked /\ pc = "parallel" /\ chunk = 2
    /\ n_jobs >= 2 /\ Cardinality(running) = n_jobs
    /\ Len(chunks[1]) = n_jobs
    /\ Jobs(chunks[1]) \subseteq finished

\* how often the job of combination j has been submitted
Count(j) == Cardinality({ i \in 1..Len(dispatched) : dispatched[i] = j })

\* the combinations of subswath and date pair of the call
Combinations ==
    { << subswaths[i], pairs[k] >> : i \in 1..Len(subswaths), k \in 1..Len(pairs) }

NoneRepeated == entry = "intf_parallel" => \A j \in AllJobs : Count(j) <= 1

IntfReturned == entry = "intf_parallel" /\ pc = "done"

AllOnce ==
    IntfReturned =>
       /\ \A j \in Combinations : Count(j) = 1
       /\ \A j \in AllJobs \ Combinations : Count(j) = 0
       /\ finished = Combinations /\ running = {}
       /\ pbar = Len(subswaths) * Len(pairs)

IntfCalled == entry = "intf_parallel" /\ pc = "intf_parallel"

IntfLeft == entry = "intf_parallel" /\ pc \in {"done", "raised"}

\* C25: no combination of subswath and date pair is ever submitted twice;
\* the call ends, by returning or by an exception; and when it returns,
\* every combination has been submitted exactly once, has finished, and
\* the progress counter equals the number of combinations.
C25_EveryJobOnce == []NoneRepeated /\ []AllOnce /\ (IntfCalled ~> IntfLeft)

C25_Witness ==
    /\ IntfReturned /\ Len(chunks) >= 2
    /\ Len(chunks[1]) > Len(chunks[Len(chunks)])
    /\ pbar = Cardinality(Combinations) /\ pbar >= 3

UpdateEnded == entry = "update" /\ pc \in {"done", "raised"}

\* the disk after the call is the disk before it
NoFileTouched == UpdateEnded /\ debug => files = before.files /\ ops = << >>

\* C26: after update with debug=True no file has been removed, renamed,
\* copied or written, and the object's filename and its input_file,
\* SLC_file and led_file values are those it had before the call.
C26_DebugChangesNothing ==
    UpdateEnded /\ debug =>
       /\ files = before.files /\ ops = << >>
       /\ filename = before.filename
       /\ df.input_file = before.df.input_file
       /\ df.SLC_file = before.df.SLC_file
       /\ df.led_file = before.df.led_file

====
